---- MODULE Spec2Model ----
(***************************************************************************)
(* Model of the semantic-search evaluation program:                        *)
(*   - the embedding backfill  (src/src/data_processing.py)                *)
(*   - the embedding client    (src/src/api_clients.py, GenAIClient)       *)
(*   - the three searches      (src/src/search_engine.py, SearchService)   *)
(*   - the per-term loop       (src/src/main.py)                           *)
(*                                                                         *)
(* Python lists are sequences; list positions are 0-based in the code and  *)
(* 1-based here, the offsets (i, j, idx) keep the code's 0-based values.   *)
(* A dict is a function whose DOMAIN is the set of keys that are present.  *)
(* Strings that the code inspects (strip) are sequences of characters.     *)
(***************************************************************************)
EXTENDS Integers, Sequences, FiniteSets, TLC

VARIABLES
    \* ---- add_embeddings_to_products ----
    pc,                             \* position in add_embeddings_to_products
    EMBEDDING_BATCH_SIZE,           \* Config.EMBEDDING_BATCH_SIZE
    input,                          \* the products argument as it was passed in
    products,                       \* the product dicts (mutated in place)
    product_id_map,                 \* key -> reference (position in products)
    texts_to_embed,
    product_ids_ordered_for_batch,
    i,                              \* offset of the batch loop
    processed_products,             \* list of references (positions in products)
    calls,                          \* the calls made to generate_embeddings so far
    \* ---- main's search loop ----
    mpc,                            \* position in main
    search_terms,
    term_idx,                       \* 0-based position of the current term
    search_type,                    \* the search type that runs next
    all_results,
    last_search,                    \* what the latest run_* call did
    engine_errors,                  \* the (term position, search type) whose engine call failed
    \* ---- main, before the search loop ----
    es_client,                      \* "none", "connected", or "unreachable" (the ping failed)
    catalog,                        \* the documents the old index holds
    indexed_count,                  \* documents index_documents wrote to the new index
    file_terms                      \* what read_search_terms_from_file reads from the file

backfillVars == <<pc, EMBEDDING_BATCH_SIZE, input, products, product_id_map,
                  texts_to_embed, product_ids_ordered_for_batch, i,
                  processed_products, calls>>
searchVars == <<mpc, search_terms, term_idx, search_type, all_results, last_search,
               engine_errors>>
mainVars == <<es_client, catalog, indexed_count, file_terms>>
vars == <<backfillVars, searchVars, mainVars>>

----------------------------------------------------------------------------
\* Bounds of the model

MaxDocs == 3            \* longest product list
MaxBatchSize == 2       \* largest EMBEDDING_BATCH_SIZE
MaxTerms == 2           \* longest search term list
MaxHits == 2            \* most hits the engine returns

----------------------------------------------------------------------------
\* Python values

\* None, for the id recorded for a product without 'id'
NoId == -1

\* a return value "list | None": None carries an empty list
None == [isNone |-> TRUE, list |-> <<>>]
Some(l) == [isNone |-> FALSE, list |-> l]

\* dict.get(key, default)
Get(d, key, default) == IF key \in DOMAIN d THEN d[key] ELSE default

\* d[key] = value
SetItem(d, key, value) ==
    [k \in DOMAIN d \cup {key} |-> IF k = key THEN value ELSE d[k]]

Min(a, b) == IF a < b THEN a ELSE b

\* seq[lo:hi] with 0-based lo, hi
Slice(seq, lo, hi) == SubSeq(seq, lo + 1, Min(hi, Len(seq)))

Whitespace == {" "}

RECURSIVE LStrip(_)
LStrip(s) == IF s # <<>> /\ Head(s) \in Whitespace THEN LStrip(Tail(s)) ELSE s

RECURSIVE RStrip(_)
RStrip(s) ==
    IF s # <<>> /\ s[Len(s)] \in Whitespace THEN RStrip(SubSeq(s, 1, Len(s) - 1)) ELSE s

\* str.strip()
Strip(s) == RStrip(LStrip(s))

----------------------------------------------------------------------------
\* Inputs

IdValues == {0, 1}

\* a product with name and description, one with both blank, one with neither
Filled == [productUrl |-> "u", name |-> <<"n">>, description |-> <<"d">>]
Blank == [productUrl |-> "u", name |-> <<" ">>, description |-> <<>>]
Bare == [productUrl |-> "u"]

\* the products a catalog is drawn from: without 'id', with ids, one that is
\* skipped, one without name and description
Docs ==
    { Filled }
    \cup { SetItem(Filled, "id", n) : n \in IdValues }
    \cup { SetItem(Blank, "id", 0), SetItem(Bare, "id", 1) }

SeqsUpTo(S, n) == UNION { [1..k -> S] : k \in 0..n }

----------------------------------------------------------------------------
\* GenAIClient.generate_embeddings

\* Config.EMBEDDING_DIMENSIONS, the 'dimensions' every request asks for; the
\* default is "512", the model runs with EMBEDDING_DIMENSIONS=2 in the environment
EMBEDDING_DIMENSIONS == 2

\* the vector the service computes for the text at position p of the call at
\* offset c, with the requested number of components
Vec(c, p) == <<c, p>>

\* the same vector from a service that does not honour 'dimensions'
OversizedVec(c, p) == Vec(c, p) \o <<0>>

NoValuesItem == [index |-> 0]

\* how many items the service may answer with for n texts: none, fewer, as many,
\* or one too many
ResponseLengths(n) == 0..(n + 1)

\* What the POST can produce for n texts: an exception, or a JSON body whose
\* 'embeddings' list holds items that carry 'values' or not; the values have
\* the requested size, or the service ignored 'dimensions' for the whole call.
ServiceResponses(n, c) ==
    { [kind |-> "RequestException", embeddings |-> <<>>],
      [kind |-> "Exception", embeddings |-> <<>>] }
    \cup
    { [kind |-> "ok", embeddings |-> [q \in 1..n |-> [values |-> OversizedVec(c, q - 1)]]] }
    \cup
    { [kind |-> "ok", embeddings |-> e] :
        e \in UNION { { f \in [1..len -> {NoValuesItem} \cup { [values |-> Vec(c, p)] : p \in 0..n }] :
                          \A q \in 1..len : f[q] = NoValuesItem \/ f[q] = [values |-> Vec(c, q - 1)] } :
                      len \in ResponseLengths(n) } }

\* [item['values'] for item in embeddings_data if 'values' in item]
RECURSIVE ValuesOf(_)
ValuesOf(embeddings_data) ==
    IF embeddings_data = <<>> THEN <<>>
    ELSE IF "values" \in DOMAIN Head(embeddings_data)
         THEN <<Head(embeddings_data)["values"]>> \o ValuesOf(Tail(embeddings_data))
         ELSE ValuesOf(Tail(embeddings_data))

\* the value generate_embeddings returns when the POST produced response
generate_embeddings(texts, response) ==
    IF texts = <<>> THEN Some(<<>>)
    ELSE IF response.kind = "ok" THEN Some(ValuesOf(response.embeddings))
    ELSE None

----------------------------------------------------------------------------
\* add_embeddings_to_products

\* product.get('id', idx)
MapKey(prods, p) == Get(prods[p], "id", p - 1)

\* mutant: the first product stored under a key stays
ProductIdMap_First(prods) ==
    [k \in { MapKey(prods, p) : p \in DOMAIN prods } |->
        CHOOSE p \in DOMAIN prods :
            /\ MapKey(prods, p) = k
            /\ \A q \in DOMAIN prods : MapKey(prods, q) = k => p <= q]

\* {product.get('id', idx): product for idx, product in enumerate(products)}:
\* a later product replaces an earlier one under the same key
ProductIdMap(prods) ==
    [k \in { MapKey(prods, p) : p \in DOMAIN prods } |->
        CHOOSE p \in DOMAIN prods :
            /\ MapKey(prods, p) = k
            /\ \A q \in DOMAIN prods : MapKey(prods, q) = k => q <= p]

\* f"{product.get('name', '')} {product.get('description', {})}"; str({}) is "{}"
TextToEmbed(product) ==
    Get(product, "name", <<>>) \o <<" ">> \o Get(product, "description", <<"{", "}">>)

\* if text_to_embed.strip():
IsEligible(product) == Strip(TextToEmbed(product)) # <<>>

RECURSIVE CollectTexts(_)
CollectTexts(prods) ==
    IF prods = <<>> THEN <<>>
    ELSE IF IsEligible(Head(prods))
         THEN <<TextToEmbed(Head(prods))>> \o CollectTexts(Tail(prods))
         ELSE CollectTexts(Tail(prods))

RECURSIVE CollectIds(_)
CollectIds(prods) ==
    IF prods = <<>> THEN <<>>
    ELSE IF IsEligible(Head(prods))
         THEN <<Get(Head(prods), "id", NoId)>> \o CollectIds(Tail(prods))
         ELSE CollectIds(Tail(prods))

EMBEDDING_FIELD_NAME == "productEmbedding"

\* mutant: every document of the batch gets the first vector
EmbeddingAt_First(batch_embeddings, j) == batch_embeddings[1]

\* batch_embeddings[j]
EmbeddingAt(batch_embeddings, j) == batch_embeddings[j + 1]

\* mutant: the loop steps one text too far
NextOffset_Skip(offset, size) == offset + size + 1

\* range(0, len(texts_to_embed), EMBEDDING_BATCH_SIZE): the offset after i
NextOffset(offset, size) == offset + size

\* if original_product_id is not None and original_product_id in product_id_map
IsMapped(original_product_id, id_map) ==
    original_product_id # NoId /\ original_product_id \in DOMAIN id_map

\* the loop of the success branch, from position j on
RECURSIVE AttachLoop(_, _, _, _, _, _)
AttachLoop(j, batch_original_ids, batch_embeddings, id_map, prods, processed) ==
    IF j >= Len(batch_original_ids) THEN [products |-> prods, processed |-> processed]
    ELSE LET original_product_id == batch_original_ids[j + 1] IN
         IF IsMapped(original_product_id, id_map)
         THEN LET ref == id_map[original_product_id] IN
              AttachLoop(j + 1, batch_original_ids, batch_embeddings, id_map,
                         [prods EXCEPT ![ref] = SetItem(@, EMBEDDING_FIELD_NAME,
                                                        EmbeddingAt(batch_embeddings, j))],
                         Append(processed, ref))
         ELSE AttachLoop(j + 1, batch_original_ids, batch_embeddings, id_map, prods, processed)

\* the loop of the failure branch, from position j on
RECURSIVE PassThroughLoop(_, _, _, _)
PassThroughLoop(j, batch_original_ids, id_map, processed) ==
    IF j >= Len(batch_original_ids) THEN processed
    ELSE LET original_product_id == batch_original_ids[j + 1] IN
         IF IsMapped(original_product_id, id_map)
         THEN PassThroughLoop(j + 1, batch_original_ids, id_map,
                              Append(processed, id_map[original_product_id]))
         ELSE PassThroughLoop(j + 1, batch_original_ids, id_map, processed)

\* if batch_embeddings and len(batch_embeddings) == len(batch_texts)
BatchSucceeded(batch_embeddings, batch_texts) ==
    /\ ~batch_embeddings.isNone
    /\ batch_embeddings.list # <<>>
    /\ Len(batch_embeddings.list) = Len(batch_texts)

----------------------------------------------------------------------------
\* SearchService

SEARCH_RESULTS_LIMIT == 5

Terms == {"wireless mouse", "usb hub"}

\* a query vector, or None
NoVector == [isNone |-> TRUE, vec |-> <<>>]
Vector(v) == [isNone |-> FALSE, vec |-> v]

\* What the POST can produce for one search term: as for a batch of one text, or
\* an item whose 'values' is an empty list
QueryResponses ==
    ServiceResponses(1, 0) \cup { [kind |-> "ok", embeddings |-> <<[values |-> <<>>]>>] }

\* _generate_query_embedding: query_embeddings[0] raises on None (TypeError) and on
\* an empty list (IndexError); an empty vector is "not query_embeddings[0]"
GenerateQueryEmbedding(query_embeddings) ==
    IF query_embeddings.isNone \/ query_embeddings.list = <<>>
    THEN [raised |-> TRUE, value |-> NoVector]
    ELSE IF query_embeddings.list[1] = <<>>
         THEN [raised |-> FALSE, value |-> NoVector]
         ELSE [raised |-> FALSE, value |-> Vector(query_embeddings.list[1])]

\* the knn clause of run_semantic_search
KnnClause(query_vector) ==
    [field |-> EMBEDDING_FIELD_NAME,
     query_vector |-> query_vector,
     k |-> SEARCH_RESULTS_LIMIT,
     num_candidates |-> SEARCH_RESULTS_LIMIT * 10]

\* the body of run_semantic_search
SemanticBody(query_vector) ==
    [knn |-> KnnClause(query_vector), _source |-> <<"name", "id", "productUrl">>]

\* mutant: the degraded hybrid query loses the boost of the lexical clause
ShouldQueries_Unboosted(term, query_embedding) ==
    IF query_embedding.isNone
    THEN <<[multi_match |-> [query |-> term,
                             fields |-> <<"name^10.0", "description^5.0">>,
                             boost |-> "1.0"]]>>
    ELSE <<[multi_match |-> [query |-> term,
                             fields |-> <<"name^10.0", "description^5.0">>,
                             boost |-> "2.5"]],
           [knn |-> [field |-> EMBEDDING_FIELD_NAME,
                     query_vector |-> query_embedding.vec,
                     k |-> SEARCH_RESULTS_LIMIT,
                     num_candidates |-> SEARCH_RESULTS_LIMIT * 10,
                     boost |-> "2.0"]]>>

\* the knn clause run_hybrid_search appends when the embedding was generated
HybridKnnClause(query_vector) ==
    [knn |-> [field |-> EMBEDDING_FIELD_NAME,
              query_vector |-> query_vector,
              k |-> SEARCH_RESULTS_LIMIT,
              num_candidates |-> SEARCH_RESULTS_LIMIT * 10,
              boost |-> "2.0"]]

\* should_queries of run_hybrid_search (numbers with a fraction are kept as written)
ShouldQueries(term, query_embedding) ==
    LET lexical == [multi_match |-> [query |-> term,
                                     fields |-> <<"name^10.0", "description^5.0">>,
                                     boost |-> "2.5"]]
    IN IF query_embedding.isNone
       THEN <<lexical>>
       ELSE <<lexical, HybridKnnClause(query_embedding.vec)>>

\* the body of run_hybrid_search
HybridBody(term, query_embedding) ==
    [query |-> [bool |-> [should |-> ShouldQueries(term, query_embedding),
                          minimum_should_match |-> 1]],
     _source |-> <<"name", "id", "productUrl">>]

\* the body of run_lexical_search
LexicalBody(term) ==
    [query |-> [multi_match |-> [query |-> term,
                                 fields |-> <<"name^10.0", "description^5.0">>,
                                 boost |-> "2.5"]],
     _source |-> <<"name", "id", "productUrl">>]

\* the raw hits the engine may return: complete, without productUrl, without
\* '_source', without '_score' (scores in tenths)
RawHits ==
    { [_source |-> [id |-> 1, name |-> "mouse", productUrl |-> "u1"], _score |-> 92],
      [_source |-> [id |-> 2, name |-> "hub"], _score |-> 41],
      [_score |-> 30],
      [_source |-> [id |-> 3, name |-> "pad", productUrl |-> "u3"]] }

\* What es.search can produce: an exception or a list of hits
EngineResponses ==
    { [kind |-> "TransportError", hits |-> <<>>], [kind |-> "Exception", hits |-> <<>>] }
    \cup { [kind |-> "ok", hits |-> h] : h \in SeqsUpTo(RawHits, MaxHits) }

\* the dict built for one hit raises KeyError without '_source' or '_score'
Mappable(hit) == "_source" \in DOMAIN hit /\ "_score" \in DOMAIN hit

ResultRow(hit) ==
    [ProductID |-> <<Get(hit["_source"], "id", "None")>>,
     ProductName |-> Get(hit["_source"], "name", "None"),
     ProductURL |-> Get(hit["_source"], "productUrl", "N/A"),
     Score |-> hit["_score"]]

\* mutant: a hit that cannot be mapped is left out, the others are kept
RECURSIVE ProjectHits_DropBad(_)
ProjectHits_DropBad(hits) ==
    IF hits = <<>> THEN <<>>
    ELSE IF Mappable(Head(hits)) THEN <<ResultRow(Head(hits))>> \o ProjectHits_DropBad(Tail(hits))
         ELSE ProjectHits_DropBad(Tail(hits))

\* results = [{...} for hit in hits] inside the try: one KeyError leaves the list
\* comprehension and the except clause returns an empty DataFrame
ProjectHits(hits) ==
    IF \E q \in DOMAIN hits : ~Mappable(hits[q])
    THEN <<>>
    ELSE [q \in DOMAIN hits |-> ResultRow(hits[q])]

NoSearch ==
    [type |-> "none", term |-> "", embedding |-> None, embedded |-> FALSE,
     query_embedding |-> NoVector, raised |-> FALSE, submitted |-> <<>>,
     engine |-> "none", hits |-> <<>>, result |-> <<>>]

\* the try block shared by the three searches: perform_search, then the projection
Submit(search, body, engine_response) ==
    IF engine_response.kind = "ok"
    THEN [search EXCEPT !.submitted = <<body>>, !.engine = "ok",
                        !.hits = engine_response.hits,
                        !.result = ProjectHits(engine_response.hits)]
    ELSE [search EXCEPT !.submitted = <<body>>, !.engine = "error"]

\* run_semantic_search
run_semantic_search(term, embed_response, engine_response) ==
    LET query_embeddings == generate_embeddings(<<term>>, embed_response)
        q == GenerateQueryEmbedding(query_embeddings)
        search == [NoSearch EXCEPT !.type = "Semantic", !.term = term,
                                   !.embedding = query_embeddings, !.embedded = TRUE,
                                   !.query_embedding = q.value]
    IN IF q.raised THEN [search EXCEPT !.raised = TRUE]
       ELSE IF q.value.isNone THEN search
       ELSE Submit(search, SemanticBody(q.value.vec), engine_response)

\* run_hybrid_search
run_hybrid_search(term, embed_response, engine_response) ==
    LET query_embeddings == generate_embeddings(<<term>>, embed_response)
        q == GenerateQueryEmbedding(query_embeddings)
        search == [NoSearch EXCEPT !.type = "Hybrid", !.term = term,
                                   !.embedding = query_embeddings, !.embedded = TRUE,
                                   !.query_embedding = q.value]
    IN IF q.raised THEN [search EXCEPT !.raised = TRUE]
       ELSE Submit(search, HybridBody(term, q.value), engine_response)

\* run_lexical_search
run_lexical_search(term, engine_response) ==
    Submit([NoSearch EXCEPT !.type = "Lexical", !.term = term], LexicalBody(term),
           engine_response)

\* main has not started: no client, nothing collected, indexed or read
MainIdle ==
    /\ es_client = "none"
    /\ catalog = <<>>
    /\ indexed_count = 0
    /\ file_terms = <<>>

SearchIdle ==
    /\ mpc = "idle"
    /\ search_terms = <<>>
    /\ term_idx = 0
    /\ search_type = "Semantic"
    /\ all_results = <<>>
    /\ last_search = NoSearch
    /\ engine_errors = {}

InitBackfill ==
    /\ pc = "start"
    /\ EMBEDDING_BATCH_SIZE \in 1..MaxBatchSize
    /\ input \in SeqsUpTo(Docs, MaxDocs)
    /\ products = input
    /\ product_id_map = <<>>
    /\ texts_to_embed = <<>>
    /\ product_ids_ordered_for_batch = <<>>
    /\ i = 0
    /\ processed_products = <<>>
    /\ calls = <<>>
    /\ SearchIdle
    /\ MainIdle

\* lines 18-39: the id map and the texts to embed
Prepare ==
    /\ pc = "start"
    /\ product_id_map' = ProductIdMap(products)
    /\ texts_to_embed' = CollectTexts(products)
    /\ product_ids_ordered_for_batch' = CollectIds(products)
    /\ pc' = "batches"
    /\ UNCHANGED <<EMBEDDING_BATCH_SIZE, input, products, i, processed_products, calls>>
    /\ UNCHANGED searchVars
    /\ UNCHANGED mainVars

\* lines 42-74: one iteration of the batch loop
ProcessBatch ==
    /\ pc = "batches"
    /\ i < Len(texts_to_embed)
    /\ LET batch_texts == Slice(texts_to_embed, i, i + EMBEDDING_BATCH_SIZE)
           batch_original_ids == Slice(product_ids_ordered_for_batch, i, i + EMBEDDING_BATCH_SIZE)
       IN \E response \in ServiceResponses(Len(batch_texts), i) :
            LET batch_embeddings == generate_embeddings(batch_texts, response) IN
            /\ calls' = Append(calls, [texts |-> batch_texts, returned |-> batch_embeddings])
            /\ IF BatchSucceeded(batch_embeddings, batch_texts)
               THEN LET r == AttachLoop(0, batch_original_ids, batch_embeddings.list,
                                        product_id_map, products, processed_products)
                    IN /\ products' = r.products
                       /\ processed_products' = r.processed
               ELSE /\ products' = products
                    /\ processed_products' =
                          PassThroughLoop(0, batch_original_ids, product_id_map, processed_products)
    /\ i' = NextOffset(i, EMBEDDING_BATCH_SIZE)
    /\ UNCHANGED <<pc, EMBEDDING_BATCH_SIZE, input, product_id_map, texts_to_embed,
                   product_ids_ordered_for_batch>>
    /\ UNCHANGED searchVars
    /\ UNCHANGED mainVars

\* lines 76-77: the loop is over, processed_products is returned
Return ==
    /\ pc = "batches"
    /\ i >= Len(texts_to_embed)
    /\ pc' = "done"
    /\ UNCHANGED <<EMBEDDING_BATCH_SIZE, input, products, product_id_map, texts_to_embed,
                   product_ids_ordered_for_batch, i, processed_products, calls>>
    /\ UNCHANGED searchVars
    /\ UNCHANGED mainVars

\* the list add_embeddings_to_products returns
Returned == [k \in DOMAIN processed_products |-> products[processed_products[k]]]

NextBackfill == Prepare \/ ProcessBatch \/ Return

SpecBackfill == InitBackfill /\ [][NextBackfill]_vars

----------------------------------------------------------------------------
\* The three searches, called one at a time in any order

BackfillIdle ==
    /\ pc = "idle"
    /\ EMBEDDING_BATCH_SIZE = 1
    /\ input = <<>>
    /\ products = <<>>
    /\ product_id_map = <<>>
    /\ texts_to_embed = <<>>
    /\ product_ids_ordered_for_batch = <<>>
    /\ i = 0
    /\ processed_products = <<>>
    /\ calls = <<>>

InitSearch ==
    /\ BackfillIdle
    /\ MainIdle
    /\ mpc = "service"
    /\ search_terms = <<>>
    /\ term_idx = 0
    /\ search_type = "Semantic"
    /\ all_results = <<>>
    /\ last_search = NoSearch
    /\ engine_errors = {}

CallSemantic ==
    /\ mpc = "service"
    /\ \E term \in Terms, embed_response \in QueryResponses, engine_response \in EngineResponses :
        last_search' = run_semantic_search(term, embed_response, engine_response)
    /\ UNCHANGED <<mpc, search_terms, term_idx, search_type, all_results, engine_errors>>
    /\ UNCHANGED backfillVars
    /\ UNCHANGED mainVars

CallHybrid ==
    /\ mpc = "service"
    /\ \E term \in Terms, embed_response \in QueryResponses, engine_response \in EngineResponses :
        last_search' = run_hybrid_search(term, embed_response, engine_response)
    /\ UNCHANGED <<mpc, search_terms, term_idx, search_type, all_results, engine_errors>>
    /\ UNCHANGED backfillVars
    /\ UNCHANGED mainVars

CallLexical ==
    /\ mpc = "service"
    /\ \E term \in Terms, engine_response \in EngineResponses :
        last_search' = run_lexical_search(term, engine_response)
    /\ UNCHANGED <<mpc, search_terms, term_idx, search_type, all_results, engine_errors>>
    /\ UNCHANGED backfillVars
    /\ UNCHANGED mainVars

NextSearch == CallSemantic \/ CallHybrid \/ CallLexical

SpecSearch == InitSearch /\ [][NextSearch]_vars

----------------------------------------------------------------------------
\* main, step 5: the loop over the search terms, and the summary

\* in the loop the engine answers with an error, no hit, or one complete hit
LoopEngineResponses ==
    { r \in EngineResponses :
        /\ Len(r.hits) <= 1
        /\ \A q \in DOMAIN r.hits :
            Mappable(r.hits[q]) /\ "productUrl" \in DOMAIN r.hits[q]["_source"] }

\* in the loop the embedding service answers with an error or at most one item
LoopQueryResponses == { r \in QueryResponses : Len(r.embeddings) <= 1 }

InitMain ==
    /\ BackfillIdle
    /\ MainIdle
    /\ mpc = "loop"
    /\ search_terms \in SeqsUpTo(Terms, MaxTerms) \ {<<>>}
    /\ term_idx = 0
    /\ search_type = "Semantic"
    /\ all_results = <<>>
    /\ last_search = NoSearch
    /\ engine_errors = {}

\* df['Product Name'].tolist() if not df.empty else []
ProductNames(df) == [q \in DOMAIN df |-> df[q].ProductName]

\* what main does with the outcome of one run_* call: an exception leaves the
\* loop for the handler at the end of main, a DataFrame is added to all_results
AfterSearch(search, next_type, next_idx) ==
    /\ last_search' = search
    /\ engine_errors' = IF search.engine = "error"
                        THEN engine_errors \cup {<<term_idx, search.type>>}
                        ELSE engine_errors
    /\ IF search.raised
       THEN /\ mpc' = "aborted"
            /\ UNCHANGED <<all_results, search_type, term_idx>>
       ELSE /\ all_results' = Append(all_results,
                                     [searched_term |-> search.term,
                                      search_type |-> search.type,
                                      result_product_names |-> ProductNames(search.result)])
            /\ search_type' = next_type
            /\ term_idx' = next_idx
            /\ mpc' = mpc
    /\ UNCHANGED search_terms
    /\ UNCHANGED backfillVars
    /\ UNCHANGED mainVars

MainSemantic ==
    /\ mpc = "loop"
    /\ term_idx < Len(search_terms)
    /\ search_type = "Semantic"
    /\ \E embed_response \in LoopQueryResponses, engine_response \in LoopEngineResponses :
        AfterSearch(run_semantic_search(search_terms[term_idx + 1], embed_response, engine_response),
                    "Hybrid", term_idx)

MainHybrid ==
    /\ mpc = "loop"
    /\ term_idx < Len(search_terms)
    /\ search_type = "Hybrid"
    /\ \E embed_response \in LoopQueryResponses, engine_response \in LoopEngineResponses :
        AfterSearch(run_hybrid_search(search_terms[term_idx + 1], embed_response, engine_response),
                    "Lexical", term_idx)

MainLexical ==
    /\ mpc = "loop"
    /\ term_idx < Len(search_terms)
    /\ search_type = "Lexical"
    /\ \E engine_response \in LoopEngineResponses :
        AfterSearch(run_lexical_search(search_terms[term_idx + 1], engine_response),
                    "Semantic", term_idx + 1)

\* the loop is over: the summary is written
MainSummary ==
    /\ mpc = "loop"
    /\ term_idx >= Len(search_terms)
    /\ mpc' = "done"
    /\ UNCHANGED <<search_terms, term_idx, search_type, all_results, last_search, engine_errors>>
    /\ UNCHANGED backfillVars
    /\ UNCHANGED mainVars

NextMain == MainSemantic \/ MainHybrid \/ MainLexical \/ MainSummary

SpecMain == InitMain /\ [][NextMain]_vars

----------------------------------------------------------------------------
\* main from its first line: the clients, steps 1-4, then the loop over the
\* search terms and the summary

\* the catalogs of the old index in a whole run: empty, one product that is
\* embedded, one without 'id', one that is skipped, and a skipped product
\* followed by one that is embedded
RunCatalogs ==
    { <<>>,
      <<SetItem(Filled, "id", 1)>>,
      <<Filled>>,
      <<SetItem(Blank, "id", 0)>>,
      <<SetItem(Blank, "id", 0), SetItem(Filled, "id", 1)>> }

\* what es.search can produce in get_products
CollectOutcomes == {"ok", "TransportError", "Exception"}

InitRun ==
    /\ BackfillIdle
    /\ mpc = "init"
    /\ search_terms = <<>>
    /\ term_idx = 0
    /\ search_type = "Semantic"
    /\ all_results = <<>>
    /\ last_search = NoSearch
    /\ engine_errors = {}
    /\ es_client = "none"
    /\ catalog \in RunCatalogs
    /\ indexed_count = 0
    /\ file_terms \in SeqsUpTo(Terms, MaxTerms)

\* ElasticsearchClient(...): _create_client pings the engine; a failed ping
\* raises ConnectionError, which leaves main through its last handler
CreateClient ==
    /\ mpc = "init"
    /\ \E ping \in BOOLEAN :
        IF ping
        THEN /\ es_client' = "connected"
             /\ mpc' = "collect"
        ELSE /\ es_client' = "unreachable"
             /\ mpc' = "aborted"
    /\ UNCHANGED <<catalog, indexed_count, file_terms>>
    /\ UNCHANGED <<search_terms, term_idx, search_type, all_results, last_search, engine_errors>>
    /\ UNCHANGED backfillVars

\* es_client.get_products(...): the hits' sources, or [] on any error
get_products(outcome) == IF outcome = "ok" THEN catalog ELSE <<>>

\* step 1: collect the products; no product ends the run
CollectProducts ==
    /\ mpc = "collect"
    /\ \E outcome \in CollectOutcomes :
        LET products_to_process == get_products(outcome) IN
        IF products_to_process = <<>>
        THEN /\ mpc' = "exited"
             /\ UNCHANGED <<pc, input, products>>
        ELSE /\ mpc' = "embed"
             /\ pc' = "start"
             /\ input' = products_to_process
             /\ products' = products_to_process
    /\ UNCHANGED <<EMBEDDING_BATCH_SIZE, product_id_map, texts_to_embed,
                   product_ids_ordered_for_batch, i, processed_products, calls>>
    /\ UNCHANGED <<search_terms, term_idx, search_type, all_results, last_search, engine_errors>>
    /\ UNCHANGED mainVars

\* steps 2 and 3: add_embeddings_to_products has returned; an empty list ends
\* the run, otherwise index_documents writes the documents one by one and
\* counts those the engine accepted
IndexProducts ==
    /\ mpc = "embed"
    /\ pc = "done"
    /\ IF Returned = <<>>
       THEN /\ mpc' = "exited"
            /\ UNCHANGED indexed_count
       ELSE /\ mpc' = "terms"
            /\ \E failed \in SUBSET DOMAIN Returned :
                indexed_count' = Len(Returned) - Cardinality(failed)
    /\ UNCHANGED <<es_client, catalog, file_terms>>
    /\ UNCHANGED <<search_terms, term_idx, search_type, all_results, last_search, engine_errors>>
    /\ UNCHANGED backfillVars

\* step 4: read the search terms; no term ends the run
ReadSearchTerms ==
    /\ mpc = "terms"
    /\ search_terms' = file_terms
    /\ mpc' = IF file_terms = <<>> THEN "exited" ELSE "loop"
    /\ UNCHANGED <<term_idx, search_type, all_results, last_search, engine_errors>>
    /\ UNCHANGED backfillVars
    /\ UNCHANGED mainVars

NextRun ==
    \/ CreateClient
    \/ CollectProducts
    \/ Prepare
    \/ ProcessBatch
    \/ Return
    \/ IndexProducts
    \/ ReadSearchTerms
    \/ MainSemantic
    \/ MainHybrid
    \/ MainLexical
    \/ MainSummary

SpecRun == InitRun /\ [][NextRun]_vars

----------------------------------------------------------------------------
\* What the claims speak about, computed from the input and the call log

BatchSize == EMBEDDING_BATCH_SIZE

\* positions of the input documents whose embedding text is non-empty after trimming
EligiblePositions == { p \in DOMAIN input : Strip(TextToEmbed(input[p])) # <<>> }

NumEligible == Cardinality(EligiblePositions)

\* 0-based rank of document p among the eligible documents elig
Rank(elig, p) == Cardinality({ q \in elig : q < p })

NthEligible(elig, r) == CHOOSE p \in elig : Rank(elig, p) = r

\* the call (1-based) and the position in it (1-based) that carry document p
CallOf(elig, p) == (Rank(elig, p) \div BatchSize) + 1
PosOf(elig, p) == (Rank(elig, p) % BatchSize) + 1

Ceil(a, b) == (a + b - 1) \div b

\* the call returned exactly as many vectors as it carried texts
CallSucceeded(k) ==
    /\ k \in DOMAIN calls
    /\ ~calls[k].returned.isNone
    /\ Len(calls[k].returned.list) = Len(calls[k].texts)

CallFailed(k) == k \in DOMAIN calls /\ ~CallSucceeded(k)

\* how often document p is in the returned list
Occurrences(p) == Cardinality({ k \in DOMAIN processed_products : processed_products[k] = p })

HasEmbedding(p) == EMBEDDING_FIELD_NAME \in DOMAIN products[p]

\* every field the document came with, the embedding field apart, is as it was
OriginalFieldsIntact(p) ==
    \A k \in DOMAIN input[p] \ {EMBEDDING_FIELD_NAME} :
        k \in DOMAIN products[p] /\ products[p][k] = input[p][k]

\* no other document is stored in the id map under the id of document p
IdIsUniqueKey(p) == \A q \in DOMAIN input : q # p => MapKey(input, q) # input[p]["id"]

\* document p came back once, with the vector of its own position, otherwise untouched
RoundTrip(elig, p) ==
    /\ Occurrences(p) = 1
    /\ HasEmbedding(p)
    /\ products[p][EMBEDDING_FIELD_NAME] = calls[CallOf(elig, p)].returned.list[PosOf(elig, p)]
    /\ OriginalFieldsIntact(p)

\* C1 as stated: every document with an id whose batch succeeds is in the returned
\* list exactly once, with the vector returned at its own position of its batch and
\* with its original fields unchanged, whatever happened to the other batches.
C1_AsStated ==
    pc = "done" =>
        LET elig == EligiblePositions IN
        \A p \in elig :
            ("id" \in DOMAIN input[p] /\ CallSucceeded(CallOf(elig, p))) => RoundTrip(elig, p)

\* C1 amended: the same, for every document whose id is the map key of no other
\* input document (no other document has that id, and no document without an id
\* sits at the positional index equal to that id); the fields left unchanged are
\* the original fields other than the embedding field.
C1_RoundTripUniqueId ==
    pc = "done" =>
        LET elig == EligiblePositions IN
        \A p \in elig :
            ("id" \in DOMAIN input[p] /\ IdIsUniqueKey(p) /\ CallSucceeded(CallOf(elig, p)))
                => RoundTrip(elig, p)

\* a document with a unique id at the second position of a batch that succeeded,
\* while another batch failed
C1_Witness ==
    /\ pc = "done"
    /\ LET elig == EligiblePositions IN
       \E p \in elig :
        /\ "id" \in DOMAIN input[p]
        /\ IdIsUniqueKey(p)
        /\ CallSucceeded(CallOf(elig, p))
        /\ PosOf(elig, p) = 2
        /\ RoundTrip(elig, p)
        /\ \E k \in DOMAIN calls : CallFailed(k)

\* C2 as stated: every document of a batch whose call failed or returned a number of
\* vectors different from its number of texts is in the returned list without the
\* embedding field, the batch is not submitted again and every later batch is
\* still submitted.
C2_AsStated ==
    pc = "done" =>
        LET elig == EligiblePositions IN
        /\ Len(calls) = Ceil(Cardinality(elig), BatchSize)
        /\ \A p \in elig :
            CallFailed(CallOf(elig, p)) => (Occurrences(p) >= 1 /\ ~HasEmbedding(p))

C5_AsStated ==
    pc = "done" =>
        LET elig == EligiblePositions IN
        \A p \in elig :
            "id" \notin DOMAIN input[p] =>
                /\ Occurrences(p) >= 1
                /\ IF CallSucceeded(CallOf(elig, p))
                   THEN /\ HasEmbedding(p)
                        /\ products[p][EMBEDDING_FIELD_NAME] =
                               calls[CallOf(elig, p)].returned.list[PosOf(elig, p)]
                   ELSE ~HasEmbedding(p)

\* a field that is missing or holds only whitespace
MissingOrBlank(d, key) == key \notin DOMAIN d \/ Strip(d[key]) = <<>>

NoNameNoDescription(d) == MissingOrBlank(d, "name") /\ MissingOrBlank(d, "description")

\* name and description joined, a missing field counting as empty
JoinedText(d) == Get(d, "name", <<>>) \o <<" ">> \o Get(d, "description", <<>>)

RECURSIVE JoinedTexts(_)
JoinedTexts(docs) ==
    IF docs = <<>> THEN <<>>
    ELSE IF NoNameNoDescription(Head(docs)) THEN JoinedTexts(Tail(docs))
         ELSE <<JoinedText(Head(docs))>> \o JoinedTexts(Tail(docs))

\* C6 as stated: the text of a document is its name and description joined, a
\* missing field counting as empty; a document whose name and description are each
\* missing or blank is skipped: no text is submitted for it and it gets no
\* embedding field.
C6_AsStated ==
    pc # "start" =>
        /\ texts_to_embed = JoinedTexts(input)
        /\ \A p \in DOMAIN input : NoNameNoDescription(input[p]) => ~HasEmbedding(p)

\* C10 as stated: generate_embeddings returns a failure value or exactly one vector
\* per input text, never a list of another length.
C10_AsStated ==
    \A k \in DOMAIN calls :
        calls[k].returned.isNone \/ Len(calls[k].returned.list) = Len(calls[k].texts)

----------------------------------------------------------------------------
\* The searches

\* the embedding client gave a failure value, or no vector, for the term
NoEmbeddingForTerm ==
    /\ last_search.embedded
    /\ \/ last_search.embedding.isNone
       \/ last_search.embedding.list = <<>>
       \/ last_search.embedding.list[1] = <<>>

HasKnnClause(body) ==
    \/ "knn" \in DOMAIN body
    \/ /\ "query" \in DOMAIN body
       /\ "bool" \in DOMAIN body["query"]
       /\ \E q \in DOMAIN body["query"]["bool"]["should"] :
            "knn" \in DOMAIN body["query"]["bool"]["should"][q]

\* the rows of the hits that can be mapped, in the engine's order
RECURSIVE MappableRows(_)
MappableRows(hits) ==
    IF hits = <<>> THEN <<>>
    ELSE IF "_source" \in DOMAIN Head(hits) /\ "_score" \in DOMAIN Head(hits)
         THEN <<[ProductID |-> <<Head(hits)["_source"]["id"]>>,
                 ProductName |-> Head(hits)["_source"]["name"],
                 ProductURL |-> IF "productUrl" \in DOMAIN Head(hits)["_source"]
                                THEN Head(hits)["_source"]["productUrl"] ELSE "N/A",
                 Score |-> Head(hits)["_score"]]>> \o MappableRows(Tail(hits))
         ELSE MappableRows(Tail(hits))

SomeHitUnmappable ==
    \E q \in DOMAIN last_search.hits :
        "_source" \notin DOMAIN last_search.hits[q] \/ "_score" \notin DOMAIN last_search.hits[q]

\* C3 as stated: when the embedding call for the term fails, run_semantic_search
\* returns an empty result set without submitting a query, and run_hybrid_search
\* submits a query with only the lexical clause and returns its results.
C3_AsStated ==
    NoEmbeddingForTerm =>
        /\ ~last_search.raised
        /\ last_search.type = "Semantic" =>
            (last_search.submitted = <<>> /\ last_search.result = <<>>)
        /\ last_search.type = "Hybrid" =>
            /\ Len(last_search.submitted) = 1
            /\ ~HasKnnClause(last_search.submitted[1])
            /\ last_search.engine = "ok" => last_search.result = ProjectHits(last_search.hits)

\* C7 as stated: without a query vector, the body run_hybrid_search submits is
\* identical to the body run_lexical_search submits for the same term.
C7_AsStated ==
    (last_search.type = "Hybrid" /\ last_search.submitted # <<>> /\ last_search.query_embedding.isNone)
        => last_search.submitted[1] = LexicalBody(last_search.term)

\* C7 amended: without a query vector, the body run_hybrid_search submits holds,
\* as the only clause of bool.should (minimum_should_match 1), the multi_match
\* clause that is the query of run_lexical_search's body for the same term, asks
\* for the same source fields and holds no knn clause.
C7_DegradedHybridClause ==
    (last_search.type = "Hybrid" /\ last_search.submitted # <<>> /\ last_search.query_embedding.isNone)
        => LET body == last_search.submitted[1] IN
           /\ DOMAIN body = {"query", "_source"}
           /\ DOMAIN body["query"] = {"bool"}
           /\ body["query"]["bool"]["should"] = <<LexicalBody(last_search.term)["query"]>>
           /\ body["query"]["bool"]["minimum_should_match"] = 1
           /\ body["_source"] = LexicalBody(last_search.term)["_source"]
           /\ ~HasKnnClause(body)

\* a hybrid search without query vector reached the engine
C7_Witness ==
    /\ last_search.type = "Hybrid"
    /\ last_search.query_embedding.isNone
    /\ ~last_search.raised
    /\ Len(last_search.submitted) = 1
    /\ last_search.engine = "ok"

\* C8 as stated: when the mapping of one raw hit fails only that hit is dropped,
\* every other hit is in the result, in the engine's order.
C8_AsStated ==
    last_search.engine = "ok" => last_search.result = MappableRows(last_search.hits)

\* C8 amended: when the mapping of one raw hit fails, the search returns an empty
\* result set (no hit of the engine's answer is in it) and no error leaves the
\* operation; when every hit can be mapped, the result holds a row per hit in
\* the engine's order.
C8_AllOrNothing ==
    last_search.engine = "ok" =>
        /\ ~last_search.raised
        /\ IF SomeHitUnmappable
           THEN last_search.result = <<>>
           ELSE last_search.result = MappableRows(last_search.hits)

\* the engine answered with a hit that can be mapped and one that cannot
C8_Witness ==
    /\ last_search.engine = "ok"
    /\ SomeHitUnmappable
    /\ MappableRows(last_search.hits) # <<>>
    /\ last_search.result = <<>>

\* C9 as stated: a failed engine call gives an empty result set for that search
\* type and term, no error leaves the run_* operation, and once a search call has
\* failed main still executes the remaining search types and terms (it does not
\* abort).
C9_AsStated ==
    /\ last_search.engine = "error" => (~last_search.raised /\ last_search.result = <<>>)
    /\ engine_errors # {} => mpc # "aborted"

----------------------------------------------------------------------------
\* Claims about the vectors and the returned list

\* the documents of the returned list that carry the embedding field
ReturnedWithEmbedding ==
    { k \in DOMAIN Returned : EMBEDDING_FIELD_NAME \in DOMAIN Returned[k] }

\* C12: after add_embeddings_to_products every vector attached to a document
\* in the embedding field has exactly EMBEDDING_DIMENSIONS components, whatever
\* the embedding service answered.
C12_AsStated ==
    pc = "done" =>
        /\ \A p \in DOMAIN products :
               HasEmbedding(p) => Len(products[p][EMBEDDING_FIELD_NAME]) = EMBEDDING_DIMENSIONS
        /\ \A k \in ReturnedWithEmbedding :
               Len(Returned[k][EMBEDDING_FIELD_NAME]) = EMBEDDING_DIMENSIONS

\* the eligible documents that have an id
WithId(elig) == { p \in elig : "id" \in DOMAIN input[p] }

\* the eligible documents with the id x
SameId(withId, x) == { p \in withId : input[p]["id"] = x }

\* the ids that two or more eligible documents share
SharedIds(withId) ==
    { x \in { input[p]["id"] : p \in withId } : Cardinality(SameId(withId, x)) >= 2 }

Last(S) == CHOOSE p \in S : \A q \in S : q <= p

\* the last input document stored under the key x of the id lookup
LastUnderKey(x) == Last({ p \in DOMAIN input : MapKey(input, p) = x })

\* the documents with the id x whose batch succeeded
Succeeded(elig, withId, x) == { p \in SameId(withId, x) : CallSucceeded(CallOf(elig, p)) }

\* document h carries the vector returned at the last successful batch position
\* recorded under the id x, if there is one
EndsWithLastVector(elig, withId, x, h) ==
    LET ok == Succeeded(elig, withId, x) IN
    ok # {} =>
        /\ HasEmbedding(h)
        /\ products[h][EMBEDDING_FIELD_NAME] =
              calls[CallOf(elig, Last(ok))].returned.list[PosOf(elig, Last(ok))]

\* one entry per eligible document with an id, in input order, each entry the
\* document the id lookup holds for the id at that position
OneEntryPerIdInOrder(withId) ==
    /\ Len(processed_products) = Cardinality(withId)
    /\ \A k \in DOMAIN processed_products :
        processed_products[k] = product_id_map[input[NthEligible(withId, k - 1)]["id"]]

\* C13 as stated: the returned list has one entry per eligible input document
\* that has an id, in input order, each entry being the document the id lookup
\* holds for that position's id; so when two eligible documents share an id,
\* the later of them appears once per occurrence of the id, the earlier never
\* appears, and the later ends with the vector of the last successful batch
\* position recorded under that id.
C13_AsStated ==
    pc = "done" =>
        LET elig == EligiblePositions
            withId == WithId(elig)
        IN /\ OneEntryPerIdInOrder(withId)
           /\ \A x \in SharedIds(withId) :
                LET later == Last(SameId(withId, x)) IN
                /\ Occurrences(later) = Cardinality(SameId(withId, x))
                /\ \A p \in SameId(withId, x) \ {later} : Occurrences(p) = 0
                /\ EndsWithLastVector(elig, withId, x, later)

\* C13 amended: the same, with "the later document" read as the last input
\* document stored under that id in the id lookup (the later of the eligible
\* documents unless a still later input document, skipped or without an id at
\* the positional index equal to the id, has the same key): that document
\* appears once per eligible occurrence of the id, every other document under
\* the key never appears, and it ends with the vector of the last successful
\* batch position recorded under that id.
C13_LookupHolderReturned ==
    pc = "done" =>
        LET elig == EligiblePositions
            withId == WithId(elig)
        IN /\ OneEntryPerIdInOrder(withId)
           /\ \A x \in SharedIds(withId) :
                LET holder == LastUnderKey(x) IN
                /\ Occurrences(holder) = Cardinality(SameId(withId, x))
                /\ \A p \in DOMAIN input :
                     (MapKey(input, p) = x /\ p # holder) => Occurrences(p) = 0
                /\ EndsWithLastVector(elig, withId, x, holder)

\* two eligible documents share an id, the batch of the earlier one succeeded
\* and the batch of the later one failed: the document the lookup holds is in
\* the list twice, with the vector of the earlier position
C13_Witness ==
    /\ pc = "done"
    /\ LET elig == EligiblePositions
           withId == WithId(elig)
       IN \E x \in SharedIds(withId) :
            \E p \in SameId(withId, x) :
                LET q == Last(SameId(withId, x))
                    holder == LastUnderKey(x)
                IN /\ p < q
                   /\ CallSucceeded(CallOf(elig, p))
                   /\ CallFailed(CallOf(elig, q))
                   /\ Occurrences(holder) = 2
                   /\ HasEmbedding(holder)
                   /\ products[holder][EMBEDDING_FIELD_NAME] =
                         calls[CallOf(elig, p)].returned.list[PosOf(elig, p)]

----------------------------------------------------------------------------
\* Claims about the whole run

\* the run ended before the summary: through the handler at the end of main
\* ("aborted") or through one of the early returns ("exited")
RunEndedEarly == mpc \in {"aborted", "exited"}

\* nothing was read, embedded, indexed or searched
NothingDone ==
    /\ input = <<>>
    /\ calls = <<>>
    /\ indexed_count = 0
    /\ search_terms = <<>>
    /\ last_search = NoSearch
    /\ all_results = <<>>

\* the products were collected and one of them is eligible for embedding
CollectedAnEligibleProduct == \E p \in DOMAIN input : IsEligible(input[p])

\* every term of the file was processed by the three search types, in order
AllTermsProcessed ==
    /\ Len(all_results) = 3 * Len(file_terms)
    /\ \A t \in DOMAIN file_terms :
        /\ all_results[3 * t - 2].search_type = "Semantic"
        /\ all_results[3 * t - 1].search_type = "Hybrid"
        /\ all_results[3 * t].search_type = "Lexical"
        /\ \A k \in (3 * t - 2)..(3 * t) : all_results[k].searched_term = file_terms[t]

\* the part of C11 about the connectivity failure alone
ConnectivityFailureAbortsFirst ==
    es_client = "unreachable" => (mpc = "aborted" /\ NothingDone)

\* C11: a connectivity failure at client initialization aborts the run before
\* any product is read, embedded, indexed or searched, and nothing else ends
\* the run early: with a reachable engine, a collected catalog that holds an
\* eligible product and a non-empty term list, the run never ends before the
\* summary, and when the summary is written every term has been processed by
\* the three search types.
C11_AsStated ==
    /\ ConnectivityFailureAbortsFirst
    /\ (es_client = "connected" /\ CollectedAnEligibleProduct /\ file_terms # <<>>)
            => /\ ~RunEndedEarly
               /\ mpc = "done" => AllTermsProcessed

====
